---------------------------- MODULE Spec2Model ----------------------------
(***************************************************************************)
(* Model of the arXiv search tool (arxiv_mcp_server/tools/search.py):      *)
(* the query compiler (_build_category_filter, _build_text_query,          *)
(* _build_date_range_filter, _build_query) and the orchestrator            *)
(* handle_search, run as coroutines on a single-threaded event loop.       *)
(*                                                                         *)
(* Text.  A Python str is a sequence of lexemes (TLA+ strings).  The       *)
(* lexemes are chosen so that a substring test of the code on characters   *)
(* coincides with a membership test on lexemes: ':' occurs only inside the *)
(* field-prefix lexemes and "submittedDate:[", ' ' and '\t' are lexemes of *)
(* their own, and so is the double quote.                                  *)
(*                                                                         *)
(* Python values.  None is [none |-> TRUE], an int n is [int |-> n], a str *)
(* is [str |-> s], a list is [list |-> <<...>>]; a dict is a function      *)
(* whose domain is the set of its keys.                                    *)
(***************************************************************************)
EXTENDS Integers, Sequences, FiniteSets, TLC

VARIABLES
    now,            \* the clock read by datetime.now(timezone.utc)
    fn,             \* query compiler under test: the function applied
    fnArgs,         \* ... its argument dictionary
    fnResult,       \* ... what it returned or raised
    arguments,      \* handle_search: arguments[i], the dict of invocation i
    pc,             \* position of invocation i in handle_search
    running,        \* the invocation the event loop is executing (0: none)
    client,         \* local `client`
    max_results,    \* local `max_results`
    sort_by,        \* local `sort_by`
    search,         \* local `search` (the arxiv.Search object)
    results,        \* local `results`
    consumed,       \* records the provider's generator has yielded so far
    exc,            \* the exception in flight / handled
    response_data,  \* local `response_data`
    response        \* the value returned to the caller

vars == <<now, fn, fnArgs, fnResult, arguments, pc, running, client,
          max_results, sort_by, search, results, consumed, exc,
          response_data, response>>

qvars == <<fn, fnArgs, fnResult>>
hvars == <<arguments, pc, running, client, max_results, sort_by, search,
           results, consumed, exc, response_data, response>>

---------------------------------------------------------------------------
(* Bounds of the model *)

\* longest query text, in fragments
MaxFragments == 3
\* longest category list
MaxCategories == 2
\* records a provider sequence may yield
MaxRecords == 4
\* the configured ceiling settings.MAX_RESULTS (config is not part of src/)
MAX_RESULTS == 3

\* arguments.get("max_results", 10)
DEFAULT_MAX_RESULTS == 10

---------------------------------------------------------------------------
(* Python values *)

None == [none |-> TRUE]
PyInt(n) == [int |-> n]
PyStr(s) == [str |-> s]
PyList(l) == [list |-> l]

IsNone(v) == "none" \in DOMAIN v
IsInt(v) == "int" \in DOMAIN v
IsStr(v) == "str" \in DOMAIN v
IsList(v) == "list" \in DOMAIN v

\* bool(v): None, "" and [] are falsy
Truthy(v) ==
    IF IsNone(v) THEN FALSE
    ELSE IF IsStr(v) THEN v.str # <<>>
    ELSE IF IsList(v) THEN v.list # <<>>
    ELSE IF IsInt(v) THEN v.int # 0
    ELSE TRUE

\* dict.get(key) and dict.get(key, default)
Get(d, key) == IF key \in DOMAIN d THEN d[key] ELSE None
GetDefault(d, key, default) == IF key \in DOMAIN d THEN d[key] ELSE default

\* the outcome of a call: a value, or an exception of a class with a message
Ok(v) == [value |-> v]
Raise(cls, msg, site) == [raised |-> cls, msg |-> msg, site |-> site]
IsOk(r) == "value" \in DOMAIN r

\* the exception classes that occur, with their base classes
Bases(cls) ==
    CASE cls = "ParserError" -> {"ParserError", "ValueError", "Exception", "BaseException"}
      [] cls = "ValueError" -> {"ValueError", "Exception", "BaseException"}
      [] cls = "TypeError" -> {"TypeError", "Exception", "BaseException"}
      [] cls = "KeyError" -> {"KeyError", "LookupError", "Exception", "BaseException"}
      [] cls = "HTTPError" -> {"HTTPError", "ArxivError", "Exception", "BaseException"}
      [] cls = "KeyboardInterrupt" -> {"KeyboardInterrupt", "BaseException"}
      [] OTHER -> {cls, "BaseException"}

IsInstance(cls, base) == base \in Bases(cls)

---------------------------------------------------------------------------
(* Text *)

RECURSIVE Flatten(_)
Flatten(ss) == IF ss = <<>> THEN <<>> ELSE Head(ss) \o Flatten(Tail(ss))

\* sep.join(parts)
RECURSIVE Join(_, _)
Join(sep, parts) ==
    IF parts = <<>> THEN <<>>
    ELSE IF Len(parts) = 1 THEN parts[1]
    ELSE parts[1] \o sep \o Join(sep, Tail(parts))

\* lexeme in s
Contains(s, lexeme) == \E i \in DOMAIN s : s[i] = lexeme

\* s.replace(old, new) for a one-lexeme old
RECURSIVE Replace(_, _, _)
Replace(s, old, new) ==
    IF s = <<>> THEN <<>>
    ELSE (IF Head(s) = old THEN new ELSE <<Head(s)>>) \o Replace(Tail(s), old, new)

Whitespace == {" ", "\t"}

\* s.split(): the maximal runs of non-whitespace lexemes
RECURSIVE SplitFrom(_, _, _)
SplitFrom(s, cur, acc) ==
    IF s = <<>> THEN (IF cur = <<>> THEN acc ELSE Append(acc, cur))
    ELSE IF Head(s) \in Whitespace
         THEN SplitFrom(Tail(s), <<>>, IF cur = <<>> THEN acc ELSE Append(acc, cur))
         ELSE SplitFrom(Tail(s), Append(cur, Head(s)), acc)

Split(s) == SplitFrom(s, <<>>, <<>>)

StartsWith(s, prefix) ==
    Len(s) >= Len(prefix) /\ SubSeq(s, 1, Len(prefix)) = prefix

EndsWith(s, suffix) ==
    Len(s) >= Len(suffix) /\ SubSeq(s, Len(s) - Len(suffix) + 1, Len(s)) = suffix

Count(s, lexeme) == Cardinality({i \in DOMAIN s : s[i] = lexeme})

SeqsUpTo(S, n) == UNION {[1..k -> S] : k \in 0..n}

---------------------------------------------------------------------------
(* Dates: dateutil's parser.parse and datetime.strftime('%Y%m%d%H%M') *)

DateTime(y, mo, d, h, mi) == [year |-> y, month |-> mo, day |-> d, hour |-> h, minute |-> mi]

\* parser.parse(s) on the date strings of the model
ParserParse(s) ==
    CASE s = <<"2022-01-01">> -> Ok(DateTime(2022, 1, 1, 0, 0))
      [] s = <<"2024-01-01">> -> Ok(DateTime(2024, 1, 1, 0, 0))
      [] s = <<>> -> Raise("ParserError", <<"String does not contain a date", ": ">>, "parser.parse")
      [] OTHER -> Raise("ParserError", <<"Unknown string format", ": ">> \o s, "parser.parse")

Pad2(n) == IF n < 10 THEN "0" \o ToString(n) ELSE ToString(n)

\* dt.strftime('%Y%m%d%H%M')
Strftime(dt) ==
    <<ToString(dt.year), Pad2(dt.month), Pad2(dt.day), Pad2(dt.hour), Pad2(dt.minute)>>

\* '197001010000'
EPOCH_FLOOR == <<"1970", "01", "01", "00", "00">>

---------------------------------------------------------------------------
(* The query compiler *)

FieldPrefixes == {"all:", "ti:", "abs:", "au:", "cat:"}

\* the variant that keeps the first category and drops the rest
BuildCategoryFilter_FirstOnly(categories) ==
    IF categories = <<>> THEN <<>> ELSE <<"cat:", categories[1]>>

\* '+OR+'.join(f"cat:{cat}" for cat in categories)
_build_category_filter(categories) ==
    Join(<<"+OR+">>, [i \in DOMAIN categories |-> <<"cat:", categories[i]>>])

_build_text_query(query) ==
    LET has_field_specifier == \E field \in FieldPrefixes : Contains(query, field)
        terms == Split(query)
    IN  IF has_field_specifier THEN Replace(query, " ", <<"+AND+">>)
        ELSE IF Contains(query, "\"") THEN <<"all:">> \o query
        ELSE IF Len(terms) > 1
             THEN Join(<<"+AND+">>, [i \in DOMAIN terms |-> <<"all:">> \o terms[i]])
             ELSE <<"all:">> \o query

\* one date argument: the default when falsy, else parse and format
FormatDate(arg, default) ==
    IF ~Truthy(arg) THEN Ok(default)
    ELSE LET parsed == ParserParse(arg.str)
         IN  IF IsOk(parsed) THEN Ok(Strftime(parsed.value)) ELSE parsed

\* the date range filter with the parser's error re-raised as a bare Exception
BuildDateRangeFilter_BareException(date_from, date_to, clock) ==
    LET from == FormatDate(date_from, EPOCH_FLOOR)
        to == FormatDate(date_to, Strftime(clock))
        wrap(e) == Raise("Exception", <<"Invalid date format: ">> \o e.msg,
                         "_build_date_range_filter")
    IN  IF ~IsOk(from) THEN wrap(from)
        ELSE IF ~IsOk(to) THEN wrap(to)
        ELSE Ok(<<"submittedDate:[">> \o from.value \o <<"+TO+">> \o to.value \o <<"]">>)

_build_date_range_filter(date_from, date_to, clock) ==
    LET from == FormatDate(date_from, EPOCH_FLOOR)
        to == FormatDate(date_to, Strftime(clock))
        wrap(e) == Raise("ValueError", <<"Invalid date format: ">> \o e.msg,
                         "_build_date_range_filter")
    IN  IF ~IsOk(from) THEN wrap(from)
        ELSE IF ~IsOk(to) THEN wrap(to)
        ELSE Ok(<<"submittedDate:[">> \o from.value \o <<"+TO+">> \o to.value \o <<"]">>)

_build_query(args, clock) ==
    LET categories == Get(args, "categories")
        category_part == IF Truthy(categories)
                         THEN <<_build_category_filter(categories.list)>>
                         ELSE <<>>
        date_part == _build_date_range_filter(Get(args, "date_from"),
                                              Get(args, "date_to"), clock)
    IN  IF "query" \notin DOMAIN args
        THEN Raise("KeyError", <<"'query'">>, "_build_query")
        ELSE IF ~IsOk(date_part) THEN date_part
        ELSE Ok(Join(<<"+AND+">>,
                     category_part \o <<_build_text_query(args["query"].str)>>
                                   \o <<date_part.value>>))

---------------------------------------------------------------------------
(* The inputs: argument dictionaries *)

EmptyDict == [k \in {} |-> None]

\* the dicts that either lack `key` or map it to one of `values`
OptKey(key, values) == {EmptyDict} \cup {key :> v : v \in values}

\* a date-range clause typed by the user into the query text
UserDateClause ==
    <<"submittedDate:[", "2020", "01", "01", "00", "00", "+TO+",
      "2021", "01", "01", "00", "00", "]">>

Fragments == {<<"x">>, <<" ">>, <<"\"">>, <<"ti:">>, <<"cat:">>, UserDateClause}

QueryTexts == {Flatten(fs) : fs \in SeqsUpTo(Fragments, MaxFragments)}

CategoryCodes == {"cs.AI", "cs.LG"}

CategoryLists == SeqsUpTo(CategoryCodes, MaxCategories)

ValidDate == <<"2022-01-01">>
InvalidDate == <<"invalid-date">>

Clock == {DateTime(2026, 11, 3, 23, 59)}

\* the requests the query compiler is applied to
CompilerRequests ==
    {q @@ c @@ df @@ dt :
        q \in OptKey("query", {PyStr(t) : t \in QueryTexts}),
        c \in OptKey("categories", {PyList(l) : l \in CategoryLists}),
        df \in OptKey("date_from", {PyStr(d) : d \in {ValidDate, InvalidDate}}),
        dt \in OptKey("date_to", {PyStr(d) : d \in {ValidDate, InvalidDate}})}

---------------------------------------------------------------------------
(* The orchestrator handle_search *)

Tasks == {1, 2}

Min(a, b) == IF a <= b THEN a ELSE b

\* int(v)
PyIntOf(v) ==
    IF IsInt(v) THEN Ok(v.int)
    ELSE IF IsStr(v)
         THEN (IF v.str = <<"2">> THEN Ok(2)
               ELSE Raise("ValueError",
                          <<"invalid literal for int() with base 10: ", "'">> \o v.str \o <<"'">>,
                          "int"))
    ELSE Raise("TypeError",
               <<"int() argument must be a string, a bytes-like object or a real number">>,
               "int")

\* min(int(arguments.get("max_results", 10)), settings.MAX_RESULTS)
ClampedLimit(args) ==
    LET requested == PyIntOf(GetDefault(args, "max_results", PyInt(DEFAULT_MAX_RESULTS)))
    IN  IF IsOk(requested) THEN Ok(Min(requested.value, MAX_RESULTS)) ELSE requested

\* the k-th record of the provider's sequence
ProviderRecord(k) ==
    [short_id |-> <<"2103.", ToString(k)>>, title |-> <<"Test Paper">>]

_process_paper(paper) ==
    [id |-> paper.short_id,
     title |-> paper.title,
     resource_uri |-> <<"arxiv://">> \o paper.short_id]

TextContent(text) == [type |-> "text", text |-> text]

\* json.dumps(response_data, indent=2)
JsonDumpsEnvelope(data) ==
    <<"{", "\"total_results\": ", ToString(data.total_results), ", ", "\"papers\": ", "[">>
    \o Flatten([i \in DOMAIN data.papers |->
                  <<"{", "\"id\": ">> \o data.papers[i].id \o <<"}">>])
    \o <<"]", "}">>

\* json.dumps({"error": str(e), "type": "validation_error"}, indent=2)
JsonDumpsError(msg) ==
    <<"{", "\"error\": ", "\"">> \o msg
    \o <<"\"", ", ", "\"type\": ", "\"validation_error\"", "}">>

\* f"Error: {str(e)}"
PlainError(msg) == <<"Error: ">> \o msg

\* the handlers without the catch-all `except Exception`
Handler_OnlyValueError(cls) ==
    IF IsInstance(cls, "ValueError") THEN "validation_error" ELSE "propagate"

\* the except clause that takes an exception of class cls
Handler(cls) ==
    IF IsInstance(cls, "ValueError") THEN "validation_error"
    ELSE IF IsInstance(cls, "Exception") THEN "plain"
    ELSE "propagate"

\* what the provider client (or a patched one) may raise
ProviderFailures == {"ValueError", "HTTPError", "KeyboardInterrupt"}
ProviderFailure(cls, site) == Raise(cls, <<"provider failure">>, site)

\* the requests handle_search is called with
SearchRequests ==
    {q @@ m @@ df @@ dt @@ c @@ s :
        q \in OptKey("query", {PyStr(<<"x">>), PyStr(<<"x", " ", "y">>)}),
        m \in OptKey("max_results",
                     {PyInt(n) : n \in -1..(MAX_RESULTS + 1)}
                       \cup {PyStr(<<"abc">>), None}),
        df \in OptKey("date_from", {PyStr(d) : d \in {<<>>, ValidDate, InvalidDate}}),
        dt \in OptKey("date_to", {PyStr(d) : d \in {<<"2024-01-01">>, InvalidDate}}),
        c \in OptKey("categories", {PyList(<<>>), PyList(<<"cs.AI">>)}),
        s \in OptKey("sort_by_method", {PyStr(<<"submitted">>), PyStr(<<"relevance">>)})}

\* the requests of two concurrent invocations
ConcurrentRequests ==
    {q @@ m @@ df :
        q \in OptKey("query", {PyStr(<<"x">>)}),
        m \in OptKey("max_results", {PyInt(0), PyInt(2), PyStr(<<"abc">>)}),
        df \in OptKey("date_from", {PyStr(InvalidDate)})}

NotCalled == "x" :> None

Goto(i, label) == pc' = [pc EXCEPT ![i] = label]

\* the event loop resumes a coroutine that is ready when nothing else runs
Start(i) ==
    /\ running = 0
    /\ pc[i] = "ready"
    /\ running' = i
    /\ Goto(i, "client")
    /\ UNCHANGED <<now, qvars, arguments, client, max_results, sort_by, search,
                   results, consumed, exc, response_data, response>>

\* client = MyArxivClient()
ConstructClient(i) ==
    /\ running = i
    /\ pc[i] = "client"
    /\ \/ /\ client' = [client EXCEPT ![i] = "MyArxivClient"]
          /\ Goto(i, "clamp")
          /\ UNCHANGED exc
       \/ /\ \E cls \in ProviderFailures :
                exc' = [exc EXCEPT ![i] = ProviderFailure(cls, "MyArxivClient")]
          /\ Goto(i, "except")
          /\ UNCHANGED client
    /\ UNCHANGED <<now, qvars, arguments, running, max_results, sort_by, search,
                   results, consumed, response_data, response>>

\* max_results = min(int(arguments.get("max_results", 10)), settings.MAX_RESULTS)
ClampMaxResults(i) ==
    /\ running = i
    /\ pc[i] = "clamp"
    /\ LET limit == ClampedLimit(arguments[i])
       IN  \/ /\ IsOk(limit)
              /\ max_results' = [max_results EXCEPT ![i] = limit.value]
              /\ Goto(i, "sort")
              /\ UNCHANGED exc
           \/ /\ ~IsOk(limit)
              /\ exc' = [exc EXCEPT ![i] = limit]
              /\ Goto(i, "except")
              /\ UNCHANGED max_results
    /\ UNCHANGED <<now, qvars, arguments, running, client, sort_by, search,
                   results, consumed, response_data, response>>

\* the sort criterion: SubmittedDate for "submitted", Relevance otherwise
ResolveSort(i) ==
    /\ running = i
    /\ pc[i] = "sort"
    /\ LET sort_by_method == Get(arguments[i], "sort_by_method")
       IN  sort_by' = [sort_by EXCEPT ![i] =
                IF Truthy(sort_by_method) /\ sort_by_method = PyStr(<<"submitted">>)
                THEN "SubmittedDate" ELSE "Relevance"]
    /\ Goto(i, "build")
    /\ UNCHANGED <<now, qvars, arguments, running, client, max_results, search,
                   results, consumed, exc, response_data, response>>

\* search = arxiv.Search(query=_build_query(arguments), ...); results = []
BuildSearch(i) ==
    /\ running = i
    /\ pc[i] = "build"
    /\ LET query == _build_query(arguments[i], now)
       IN  \/ /\ IsOk(query)
              /\ search' = [search EXCEPT ![i] =
                    [query |-> query.value, max_results |-> max_results[i],
                     sort_by |-> sort_by[i]]]
              /\ Goto(i, "iterate")
              /\ UNCHANGED exc
           \/ /\ ~IsOk(query)
              /\ exc' = [exc EXCEPT ![i] = query]
              /\ Goto(i, "except")
              /\ UNCHANGED search
           \/ /\ IsOk(query)
              /\ \E cls \in ProviderFailures :
                    exc' = [exc EXCEPT ![i] = ProviderFailure(cls, "arxiv.Search")]
              /\ Goto(i, "except")
              /\ UNCHANGED search
    /\ UNCHANGED <<now, qvars, arguments, running, client, max_results, sort_by,
                   results, consumed, response_data, response>>

\* one turn of `for paper in client.results(search)`: the generator yields a
\* record, which is appended and the length checked; or it is exhausted; or it
\* raises
PullRecord(i) ==
    /\ running = i
    /\ pc[i] = "iterate"
    /\ \/ /\ consumed[i] < MaxRecords
          /\ consumed' = [consumed EXCEPT ![i] = @ + 1]
          /\ results' = [results EXCEPT ![i] =
                Append(@, _process_paper(ProviderRecord(consumed[i] + 1)))]
          /\ Goto(i, IF Len(results[i]) + 1 >= max_results[i] THEN "respond" ELSE "iterate")
          /\ UNCHANGED exc
       \/ /\ Goto(i, "respond")
          /\ UNCHANGED <<consumed, results, exc>>
       \/ /\ \E cls \in ProviderFailures :
                exc' = [exc EXCEPT ![i] = ProviderFailure(cls, "client.results")]
          /\ Goto(i, "except")
          /\ UNCHANGED <<consumed, results>>
    /\ UNCHANGED <<now, qvars, arguments, running, client, max_results, sort_by,
                   search, response_data, response>>

\* response_data = {...}; return [TextContent(type="text", text=json.dumps(...))]
Respond(i) ==
    /\ running = i
    /\ pc[i] = "respond"
    /\ LET data == [total_results |-> Len(results[i]), papers |-> results[i]]
       IN  /\ response_data' = [response_data EXCEPT ![i] = data]
           /\ response' = [response EXCEPT ![i] = <<TextContent(JsonDumpsEnvelope(data))>>]
    /\ Goto(i, "done")
    /\ running' = 0
    /\ UNCHANGED <<now, qvars, arguments, client, max_results, sort_by, search,
                   results, consumed, exc>>

\* except ValueError / except Exception / neither
HandleException(i) ==
    /\ running = i
    /\ pc[i] = "except"
    /\ \/ /\ Handler(exc[i].raised) = "validation_error"
          /\ response' = [response EXCEPT ![i] = <<TextContent(JsonDumpsError(exc[i].msg))>>]
          /\ Goto(i, "done")
       \/ /\ Handler(exc[i].raised) = "plain"
          /\ response' = [response EXCEPT ![i] = <<TextContent(PlainError(exc[i].msg))>>]
          /\ Goto(i, "done")
       \/ /\ Handler(exc[i].raised) = "propagate"
          /\ Goto(i, "raised")
          /\ UNCHANGED response
    /\ running' = 0
    /\ UNCHANGED <<now, qvars, arguments, client, max_results, sort_by, search,
                   results, consumed, exc, response_data>>

Next ==
    \E i \in Tasks :
        \/ Start(i)
        \/ ConstructClient(i)
        \/ ClampMaxResults(i)
        \/ ResolveSort(i)
        \/ BuildSearch(i)
        \/ PullRecord(i)
        \/ Respond(i)
        \/ HandleException(i)

\* the locals of an invocation that has not run yet
InitLocals ==
    /\ running = 0
    /\ client = [i \in Tasks |-> "unset"]
    /\ max_results = [i \in Tasks |-> 0]
    /\ sort_by = [i \in Tasks |-> "unset"]
    /\ search = [i \in Tasks |-> None]
    /\ results = [i \in Tasks |-> <<>>]
    /\ consumed = [i \in Tasks |-> 0]
    /\ exc = [i \in Tasks |-> None]
    /\ response_data = [i \in Tasks |-> None]
    /\ response = [i \in Tasks |-> <<>>]

InitCompilerIdle ==
    /\ fn = "none"
    /\ fnArgs = EmptyDict
    /\ fnResult = None

\* one invocation of handle_search
Init ==
    /\ now \in Clock
    /\ InitCompilerIdle
    /\ \E a \in SearchRequests : arguments = [i \in Tasks |-> IF i = 1 THEN a ELSE NotCalled]
    /\ pc = [i \in Tasks |-> IF i = 1 THEN "ready" ELSE "idle"]
    /\ InitLocals

Spec == Init /\ [][Next]_vars

\* two invocations awaited concurrently on one event loop
InitConc ==
    /\ now \in Clock
    /\ InitCompilerIdle
    /\ arguments \in [Tasks -> ConcurrentRequests]
    /\ pc = [i \in Tasks |-> "ready"]
    /\ InitLocals

SpecConc == InitConc /\ [][Next]_vars

---------------------------------------------------------------------------
(* The query compiler applied to a request *)

CallBuildQuery ==
    /\ fn = "none"
    /\ fn' = "_build_query"
    /\ fnResult' = _build_query(fnArgs, now)
    /\ UNCHANGED <<now, fnArgs, hvars>>

CallBuildTextQuery ==
    /\ fn = "none"
    /\ "query" \in DOMAIN fnArgs
    /\ fn' = "_build_text_query"
    /\ fnResult' = Ok(_build_text_query(fnArgs["query"].str))
    /\ UNCHANGED <<now, fnArgs, hvars>>

NextQuery == CallBuildQuery \/ CallBuildTextQuery

InitQuery ==
    /\ now \in Clock
    /\ fn = "none"
    /\ fnArgs \in CompilerRequests
    /\ fnResult = None
    /\ arguments = [i \in Tasks |-> NotCalled]
    /\ pc = [i \in Tasks |-> "idle"]
    /\ InitLocals

SpecQuery == InitQuery /\ [][NextQuery]_vars

---------------------------------------------------------------------------
(* Vocabulary of the properties *)

Finished(i) == pc[i] \in {"done", "raised"}
Returned(i) == pc[i] = "done"
HasRaised(i) == "raised" \in DOMAIN exc[i]
RaisedAt(i, site) == HasRaised(i) /\ exc[i].site = site

\* min(requested, configured ceiling), for a request whose max_results is an int
RequestedLimit(args) ==
    Min(IF "max_results" \in DOMAIN args THEN args["max_results"].int
        ELSE DEFAULT_MAX_RESULTS, MAX_RESULTS)
HasIntLimit(args) == "max_results" \in DOMAIN args => IsInt(args["max_results"])

\* a supplied date string that parser.parse does not accept
Unparseable(v) == IsStr(v) /\ ~IsOk(ParserParse(v.str))
\* ... and that is not the empty string
Rejected(v) == Unparseable(v) /\ v.str # <<>>

OneTextBlock(r) == Len(r) = 1 /\ r[1].type = "text"

ValidationErrorHead == <<"{", "\"error\": ", "\"">>
ValidationErrorTail == <<"\"", ", ", "\"type\": ", "\"validation_error\"", "}">>

\* the text is {"error": <message>, "type": "validation_error"}
IsValidationError(text) ==
    StartsWith(text, ValidationErrorHead) /\ EndsWith(text, ValidationErrorTail)

\* the call got as far as compiling the date range
ReachedDateRange(i) ==
    /\ client[i] = "MyArxivClient"
    /\ IsOk(ClampedLimit(arguments[i]))
    /\ "query" \in DOMAIN arguments[i]

\* well-formed clauses submittedDate:[YYYY mm dd HH MM +TO+ YYYY mm dd HH MM]
DateClauseCount(s) ==
    Cardinality({k \in DOMAIN s :
        /\ s[k] = "submittedDate:["
        /\ k + 12 <= Len(s)
        /\ s[k + 6] = "+TO+"
        /\ s[k + 12] = "]"})

---------------------------------------------------------------------------
(* C1 *)

\* C1: the envelope handle_search returns never holds more papers than the
\* clamped limit min(requested, ceiling), whatever the requested max_results
\* (absent, positive, zero, negative) and however long the provider sequence.
C1_PapersWithinLimit ==
    \A i \in Tasks :
        (Returned(i) /\ ~HasRaised(i) /\ HasIntLimit(arguments[i]))
            => Len(response_data[i].papers) <= RequestedLimit(arguments[i])

(* C2 *)

C4_LimitInRange ==
    \A i \in Tasks :
        pc[i] \in {"sort", "build", "iterate", "respond"}
            => 0 <= max_results[i] /\ max_results[i] <= MAX_RESULTS

(* C5 *)

\* C5: when the date parser rejects date_from, the text of the one returned
\* block starts with the plain prefix "Error: Unknown string format".
C5_PlainPrefixOnBadDateFrom ==
    \A i \in Tasks :
        (Returned(i) /\ RaisedAt(i, "_build_date_range_filter")
                     /\ Rejected(Get(arguments[i], "date_from")))
            => /\ OneTextBlock(response[i])
               /\ StartsWith(response[i][1].text, <<"Error: ", "Unknown string format">>)

(* C6 *)

\* C6: every failure that is not a malformed date (a non-integer max_results,
\* a missing query, any exception of the provider client) is reported as the
\* plain line "Error: <message>", never as the validation_error payload.
C6_OtherFailuresArePlain ==
    \A i \in Tasks :
        (Returned(i) /\ HasRaised(i) /\ exc[i].site # "_build_date_range_filter")
            => /\ OneTextBlock(response[i])
               /\ response[i][1].text = PlainError(exc[i].msg)
               /\ ~IsValidationError(response[i][1].text)

(* C9 *)

\* C9: an invocation that is about to fetch from the provider is suspended
\* at that fetch, so that another invocation that is ready can be resumed by
\* the event loop between any two fetches of the first.
C9_OtherCanRunBetweenFetches ==
    \A i \in Tasks : \A j \in Tasks \ {i} :
        (pc[i] = "iterate" /\ pc[j] = "ready") => ENABLED Start(j)

(* C10 *)

\* C10: for a clamped limit of 0 or more, the records pulled from the
\* provider never outnumber the limit: pulling stops as soon as the result
\* list has reached it.
C10_PullsWithinLimit ==
    \A i \in Tasks :
        ("query" \in DOMAIN search[i] /\ max_results[i] >= 0)
            => consumed[i] <= max_results[i]

---------------------------------------------------------------------------
(* C7 *)

\* C7 as stated: a compiled query holds exactly one submittedDate clause, its
\* clauses are joined by +AND+, and it holds a category clause if and only if
\* categories were supplied.
C7_OneDateClauseCatIffSupplied ==
    (fn = "_build_query" /\ IsOk(fnResult))
        => /\ DateClauseCount(fnResult.value) = 1
           /\ Count(fnResult.value, "submittedDate:[") = 1
           /\ Contains(fnResult.value, "+AND+")
           /\ Contains(fnResult.value, "cat:") <=> "categories" \in DOMAIN fnArgs

\* C7 amended: a compiled query ends with one generated
\* submittedDate:[from+TO+to] clause joined by +AND+, so it holds exactly one
\* such clause more than the caller's query text holds; and it holds one cat:
\* clause per supplied category code on top of those of the query text: a
\* generated category clause if and only if categories is a non-empty list.
C7_GeneratedClauses ==
    (fn = "_build_query" /\ IsOk(fnResult))
        => LET q == fnResult.value
               text == fnArgs["query"].str
               cats == Get(fnArgs, "categories")
               n == IF IsList(cats) THEN Len(cats.list) ELSE 0
           IN  /\ DateClauseCount(q) = 1 + DateClauseCount(text)
               /\ Count(q, "submittedDate:[") = 1 + Count(text, "submittedDate:[")
               /\ Len(q) >= 14
               /\ q[Len(q) - 13] = "+AND+"
               /\ q[Len(q) - 12] = "submittedDate:["
               /\ q[Len(q)] = "]"
               /\ Count(q, "cat:") = n + Count(text, "cat:")
               /\ n > 0 => StartsWith(q, <<"cat:", cats.list[1]>>)
               /\ Count(q, "+OR+") = (IF n > 0 THEN n - 1 ELSE 0)

\* C7 witness: a query text that carries a date clause of its own, compiled
\* with categories supplied as the empty list
C7_Witness ==
    /\ fn = "_build_query"
    /\ IsOk(fnResult)
    /\ Get(fnArgs, "categories") = PyList(<<>>)
    /\ DateClauseCount(fnArgs["query"].str) = 1
    /\ DateClauseCount(fnResult.value) = 2

(* C8 *)

\* C8: for a query without field prefix and without double quote,
\* _build_text_query returns the +AND+ join of all:<term> over the
\* whitespace-separated terms when there are several, and exactly all:<term>
\* when there is one, whatever whitespace surrounds it.
C8_TermsAreQualified ==
    fn = "_build_text_query"
        => LET text == fnArgs["query"].str
               terms == Split(text)
           IN  ((\A f \in FieldPrefixes : ~Contains(text, f)) /\ ~Contains(text, "\""))
                  => /\ Len(terms) > 1
                          => fnResult.value =
                               Join(<<"+AND+">>,
                                    [k \in DOMAIN terms |-> <<"all:">> \o terms[k]])
                     /\ Len(terms) = 1 => fnResult.value = <<"all:">> \o terms[1]

====
